---- MODULE Spec2Model ----
(***************************************************************************)
(* Streaming audio capture and transcription pipeline of voice-demo.       *)
(*                                                                         *)
(*   SpecMerge  : mergeWavChunks, byte for byte, on RIFF/WAVE containers   *)
(*   SpecHook   : the useWhisper hook (recorder, gate, spans, flushes)     *)
(*   SpecRemote : the AudioRecorder component (remote backend)             *)
(*   SpecSessions : the hook with two streams and recorders, no chunks     *)
(*   SpecLocal  : WhisperStreamRecorder + WhisperWasmService               *)
(*   SpecEngine : the WhisperWasmService singleton under any caller        *)
(*   SpecAll    : whichever of the three recorders is mounted              *)
(***************************************************************************)
EXTENDS Integers, Sequences, FiniteSets, TLC

VARIABLES
    \* ---- which recorder is mounted, and the handler that ran last ----
    comp,       \* "merge" | "hook" | "remote" | "local" | "engine"
    ev,         \* name of the last handler or continuation that ran
    \* ---- mergeWavChunks ----
    mIn,        \* the chunks handed to mergeWavChunks (structured description)
    mOut,       \* "pending", or the Blob the promise resolved with
    \* ---- useWhisper ----
    hk,         \* the hook instance: refs, React state, recorder objects,
                \* media streams, the gate, the clock and the suspended handlers
    \* ---- AudioRecorder ----
    ar,         \* the component: state, refs, MediaRecorders, streams, tasks
    \* ---- WhisperStreamRecorder and the WhisperWasmService singleton ----
    ws

vars == <<comp, ev, mIn, mOut, hk, ar, ws>>

(***************************************************************************)
(* Bytes, DataView                                                         *)
(***************************************************************************)
RECURSIVE SumSeq(_)
SumSeq(s) ==
    IF s = <<>> THEN 0 ELSE Head(s) + SumSeq(Tail(s))

RECURSIVE Flatten(_)
Flatten(ss) ==
    IF ss = <<>> THEN <<>> ELSE Head(ss) \o Flatten(Tail(ss))

\* DataView.setUint16(_, n, true) / setUint32(_, n, true): little endian
U16LE(n) ==
    << n % 256, (n \div 256) % 256 >>

U32LE(n) ==
    << n % 256, (n \div 256) % 256, (n \div 65536) % 256, (n \div 16777216) % 256 >>

\* DataView.getUint8 / getUint16 / getUint32 at a 0-based byte offset
GetUint8(buf, off) ==
    buf[off + 1]

GetUint16(buf, off) ==
    buf[off + 1] + 256 * buf[off + 2]

GetUint32(buf, off) ==
    buf[off + 1] + 256 * buf[off + 2] + 65536 * buf[off + 3] + 16777216 * buf[off + 4]

\* ArrayBuffer.slice(begin, end), 0-based, end clamped to the length
Slice(buf, begin, end) ==
    LET e == IF end > Len(buf) THEN Len(buf) ELSE end
    IN  IF begin >= e THEN <<>> ELSE SubSeq(buf, begin + 1, e)

\* four character codes
RIFF == <<82, 73, 70, 70>>
WAVE == <<87, 65, 86, 69>>
FMT  == <<102, 109, 116, 32>>
DATA == <<100, 97, 116, 97>>
LIST == <<76, 73, 83, 84>>

(***************************************************************************)
(* The containers mergeWavChunks is given: RIFF/WAVE files with a 16-byte  *)
(* PCM fmt sub-chunk, optional metadata sub-chunks and one data sub-chunk. *)
(* A RIFF sub-chunk of odd size is followed by one pad byte that its size  *)
(* field does not count.                                                   *)
(***************************************************************************)
Formats ==
    { [ch |-> 1, rate |-> 44100, bits |-> 16],
      [ch |-> 2, rate |-> 16000, bits |-> 8] }

Metas ==
    { <<>>, <<105>>, <<105, 110>> }

Payloads ==
    { <<>>, <<7>>, <<7, 9>> }

MaxMergeChunks == 2

ChunkDescs ==
    [fmt : Formats, meta : Metas, payload : Payloads]

Pad(bytes) ==
    IF Len(bytes) % 2 = 1 THEN <<0>> ELSE <<>>

SubChunk(id, bytes) ==
    id \o U32LE(Len(bytes)) \o bytes \o Pad(bytes)

FmtBody(f) ==
    U16LE(1) \o U16LE(f.ch) \o U32LE(f.rate)
        \o U32LE((f.rate * f.ch * f.bits) \div 8)
        \o U16LE((f.ch * f.bits) \div 8) \o U16LE(f.bits)

WavBytes(d) ==
    LET body == WAVE \o SubChunk(FMT, FmtBody(d.fmt))
                     \o (IF d.meta = <<>> THEN <<>> ELSE SubChunk(LIST, d.meta))
                     \o SubChunk(DATA, d.payload)
    IN  RIFF \o U32LE(Len(body)) \o body

(***************************************************************************)
(* mergeWavChunks                                                          *)
(***************************************************************************)
\* lines 96-118: the scan for the "data" sub-chunk of one chunk; the result
\* is <<found, audioData>>
RECURSIVE FindData(_, _)
FindData(buf, dataOffset) ==
    IF ~(dataOffset < Len(buf) - 8)
    THEN <<FALSE, <<>>>>
    ELSE LET chunkId   == SubSeq(buf, dataOffset + 1, dataOffset + 4)
             chunkSize == GetUint32(buf, dataOffset + 4)
         IN  IF chunkId = DATA
             THEN <<TRUE, Slice(buf, dataOffset + 8, dataOffset + 8 + chunkSize)>>
             ELSE FindData(buf, dataOffset + 8 + chunkSize)

RECURSIVE ExtractAll_SkipHeaderFallback(_, _)
ExtractAll_SkipHeaderFallback(bufs, st) ==
    IF bufs = <<>> THEN st
    ELSE LET buf   == Head(bufs)
             first == st.buffers = <<>>
             st1   == IF first
                      THEN [st EXCEPT !.ch   = GetUint16(buf, 22),
                                      !.rate = GetUint32(buf, 24),
                                      !.bits = GetUint16(buf, 34)]
                      ELSE st
             found == FindData(buf, 12)
             st2   == [st1 EXCEPT !.buffers =
                          Append(@, IF found[1] THEN found[2]
                                    ELSE Slice(buf, 44, Len(buf)))]
         IN  ExtractAll_SkipHeaderFallback(Tail(bufs), st2)

\* lines 67-119: the loop over the chunks; st is the loop state
\* [buffers, ch, rate, bits]
RECURSIVE ExtractAll(_, _)
ExtractAll(bufs, st) ==
    IF bufs = <<>> THEN st
    ELSE LET buf   == Head(bufs)
             first == st.buffers = <<>>
             st1   == IF first
                      THEN [st EXCEPT !.ch   = GetUint16(buf, 22),
                                      !.rate = GetUint32(buf, 24),
                                      !.bits = GetUint16(buf, 34)]
                      ELSE st
             found == FindData(buf, 12)
             st2   == IF found[1]
                      THEN [st1 EXCEPT !.buffers = Append(@, found[2])]
                      ELSE st1
         IN  ExtractAll(Tail(bufs), st2)

\* lines 133-193: the synthesized 44-byte header followed by the samples
BuildWav(ch, rate, bits, combinedAudio) ==
    RIFF \o U32LE(36 + Len(combinedAudio)) \o WAVE
         \o FMT \o U32LE(16) \o U16LE(1) \o U16LE(ch) \o U32LE(rate)
         \o U32LE((rate * ch * bits) \div 8) \o U16LE((ch * bits) \div 8)
         \o U16LE(bits)
         \o DATA \o U32LE(Len(combinedAudio)) \o combinedAudio

MergeWavChunks_AlwaysRebuild(chunks) ==
    LET st == ExtractAll(chunks,
                  [buffers |-> <<>>, ch |-> 1, rate |-> 44100, bits |-> 16])
    IN  BuildWav(st.ch, st.rate, st.bits, Flatten(st.buffers))

MergeWavChunks(chunks) ==
    IF Len(chunks) = 1 THEN chunks[1]
    ELSE LET st == ExtractAll(chunks,
                       [buffers |-> <<>>, ch |-> 1, rate |-> 44100, bits |-> 16])
         IN  BuildWav(st.ch, st.rate, st.bits, Flatten(st.buffers))

(***************************************************************************)
(* useWhisper: configuration, bounds and the initial hook instance         *)
(***************************************************************************)
\* the configurations explored: defaultConfig (lines 21-33) overridden by the
\* caller in the flags the handlers branch on
DefaultConfig ==
    [autoTranscribe |-> TRUE, streaming |-> FALSE, nonStop |-> FALSE,
     removeSilence |-> FALSE, callback |-> FALSE]

\* the default configuration and the ones that differ from it in the options
\* the handlers branch on
Configs ==
    { DefaultConfig,
      [DefaultConfig EXCEPT !.autoTranscribe = FALSE],
      [DefaultConfig EXCEPT !.autoTranscribe = FALSE, !.streaming = TRUE],
      [DefaultConfig EXCEPT !.streaming = TRUE],
      [DefaultConfig EXCEPT !.streaming = TRUE, !.nonStop = TRUE],
      [DefaultConfig EXCEPT !.removeSilence = TRUE],
      [DefaultConfig EXCEPT !.callback = TRUE],
      [DefaultConfig EXCEPT !.callback = TRUE, !.streaming = TRUE] }

MaxStreams == 1      \* microphone streams granted in one run
MaxRecs    == 1      \* recorder objects constructed in one run
MaxChunks  == 2      \* time slices recorded in one run
MaxCalls   == 3      \* transcription calls issued in one run
MaxTasks   == 2      \* handlers suspended at an await at the same time
MaxSpans   == 2      \* speech-start events in one run

\* the limits of a run of the hook
Limits ==
    [streams |-> MaxStreams, recs |-> MaxRecs, chunks |-> MaxChunks,
     calls |-> MaxCalls, tasks |-> MaxTasks, spans |-> MaxSpans]

\* undefined, as the blob or the text of a transcript
Undefined == [src |-> "undefined"]

\* lines 226-239: the refs and the React state after the first render; the
\* rest is the environment the hook drives (recorders, streams, gate, clock)
\* and the handlers suspended at an await
HookInit(c, lim) ==
    [ cfg |-> c,
      lim |-> lim,
      mounted |-> TRUE,
      chunks |-> <<>>,
      speechChunks |-> <<>>,
      isSpeaking |-> FALSE,
      lastTranscriptionTime |-> 0,   \* 0, or 1 for a Date.now() reading
      recorder |-> 0,
      stream |-> 0,
      timeoutStop |-> FALSE,
      recording |-> FALSE,
      speaking |-> FALSE,
      transcribing |-> FALSE,
      transcript |-> [blob |-> Undefined, text |-> Undefined],
      \* environment
      recs |-> <<>>,           \* recorder objects: [state, audio, blobReady]
      live |-> {},             \* streams whose tracks are live
      nStreams |-> 0,
      timerPending |-> 0,      \* setTimeout(onStopRecording) calls not yet fired
      vadOn |-> FALSE,         \* the gate is listening
      vadSpeech |-> FALSE,     \* the gate is inside a speech segment
      nChunks |-> 0,
      \* suspended handlers
      nGum |-> 0,              \* onStartStreaming awaiting getUserMedia
      nImp |-> 0,              \* onStartRecording awaiting import("recordrtc")
      stops |-> <<>>,          \* onStopRecording: [pc, rec, blob]
      flushes |-> <<>>,        \* onStopSpeaking / onDataAvailable:
                               \*   [kind, pc, arr, live]
      \* history
      calls |-> <<>>,          \* transcription calls issued, as a bag:
                               \*   [kind, via, audio] :> how many
      nCalls |-> 0,
      errors |-> 0,            \* error strings delivered to the hook's caller
      spanId |-> 0,            \* speech-start events handled
      chunkSpan |-> <<>>,      \* per chunk: the span it was appended to, or 0
      scn |-> "fresh" ]        \* progress of start, speech-start, chunks, speech-end

HookIdle ==
    [ cfg |-> [autoTranscribe |-> TRUE, streaming |-> FALSE, nonStop |-> FALSE,
               removeSilence |-> FALSE, callback |-> FALSE],
      lim |-> Limits,
      mounted |-> FALSE ]

(***************************************************************************)
(* useWhisper: the synchronous helpers                                      *)
(***************************************************************************)
OnStartTimeout_NoHandleTest(h) ==
    [h EXCEPT !.timeoutStop = TRUE, !.timerPending = @ + 1]

\* lines 382-386
OnStartTimeout(h) ==
    IF ~h.timeoutStop
    THEN [h EXCEPT !.timeoutStop = TRUE, !.timerPending = @ + 1]
    ELSE h

\* lines 520-525: clearTimeout and forget the handle
OnStopTimeout(h) ==
    IF h.timeoutStop
    THEN [h EXCEPT !.timeoutStop = FALSE,
                   !.timerPending = IF @ > 0 THEN @ - 1 ELSE 0]
    ELSE h

\* lines 507-514
OnStopStreaming(h) ==
    IF h.stream # 0
    THEN [h EXCEPT !.live = @ \ {h.stream}, !.stream = 0]
    ELSE h

\* speechChunks.current = []: a new array; a merge still iterating the old
\* array no longer sees what is pushed from now on
Detach(fl) ==
    [i \in 1..Len(fl) |-> [fl[i] EXCEPT !.live = FALSE]]

\* speechChunks.current.push(data): seen by every merge still iterating
\* that same array
PushLive(fl, data) ==
    [i \in 1..Len(fl) |->
        IF fl[i].pc = "merge" /\ fl[i].live
        THEN [fl[i] EXCEPT !.arr = Append(@, data)]
        ELSE fl[i]]

ClearSpeechChunks(h) ==
    [h EXCEPT !.speechChunks = <<>>, !.flushes = Detach(@)]

\* RecordRTCPromisesHandler.getBlob(): the blob kept by stopRecording's
\* callback; before that callback ran there is no complete recording
GetBlob(h, r) ==
    IF h.recs[r].blobReady
    THEN [src |-> "recorder", ids |-> h.recs[r].audio]
    ELSE [src |-> "notReady", ids |-> <<>>]

\* a transcription request leaves for the backend
Issue(h, kind, via, audio) ==
    LET c == [kind |-> kind, via |-> via, audio |-> audio]
    IN  [h EXCEPT !.nCalls = @ + 1,
                  !.calls = IF c \in DOMAIN @ THEN [@ EXCEPT ![c] = @ + 1]
                            ELSE @ @@ (c :> 1)]

RemoveAt(s, i) ==
    SubSeq(s, 1, i - 1) \o SubSeq(s, i + 1, Len(s))

(***************************************************************************)
(* useWhisper: start                                                       *)
(***************************************************************************)
\* lines 342-352: getState, startRecording / resumeRecording, the idle
\* timeout under nonStop, setRecording(true).  RecordRTC starts a stopped
\* recorder over with an empty recording.
StartTail(h) ==
    LET r  == h.recorder
        st == h.recs[r].state
        h1 == IF st \in {"inactive", "stopped"}
              THEN [h EXCEPT !.recs[r] = [@ EXCEPT !.state = "recording",
                                                   !.audio = <<>>,
                                                   !.blobReady = FALSE]]
              ELSE IF st = "paused"
              THEN [h EXCEPT !.recs[r].state = "recording"]
              ELSE h
        h2 == IF h.cfg.nonStop THEN OnStartTimeout(h1) ELSE h1
    IN  [h2 EXCEPT !.recording = TRUE]

\* lines 322-326: with a stream, create the recorder if there is none (the
\* dynamic import suspends the handler), else go on with the one there is
ContinueStart(h) ==
    IF h.stream = 0 THEN h
    ELSE IF h.recorder = 0 THEN [h EXCEPT !.nImp = @ + 1]
    ELSE StartTail(h)

\* lines 317-321 and 364-373: onStartRecording up to its first await
OnStartRecording(h) ==
    IF h.stream = 0
    THEN [h EXCEPT !.nGum = @ + 1]
    ELSE ContinueStart(h)

\* lines 371-377, then 322: getUserMedia settles; the stream is stored
\* whatever stream.current holds by now; a rejection is logged only
GumSettled(h, granted) ==
    LET h0 == [h EXCEPT !.nGum = @ - 1]
        s  == h.nStreams + 1
        h1 == IF granted
              THEN [h0 EXCEPT !.nStreams = s, !.live = @ \cup {s}, !.stream = s]
              ELSE h0
    IN  ContinueStart(h1)

\* lines 327-341: the import resolved; new RecordRTCPromisesHandler throws
\* without a stream (caught at line 354)
ImportSettled(h) ==
    LET h0 == [h EXCEPT !.nImp = @ - 1]
        r  == Len(h.recs) + 1
    IN  IF h.stream = 0
        THEN h0
        ELSE StartTail([h0 EXCEPT
                 !.recs = Append(@, [state |-> "inactive", audio |-> <<>>,
                                     blobReady |-> FALSE, stream |-> h.stream]),
                 !.recorder = r])

OnPauseRecording_NoStateTest(h) ==
    IF h.recorder = 0 THEN h
    ELSE [OnStopTimeout([h EXCEPT !.recs[h.recorder].state = "paused"])
            EXCEPT !.recording = FALSE]

\* lines 449-462
OnPauseRecording(h) ==
    IF h.recorder = 0 THEN h
    ELSE LET r  == h.recorder
             h1 == IF h.recs[r].state = "recording"
                   THEN [h EXCEPT !.recs[r].state = "paused"]
                   ELSE h
         IN  [OnStopTimeout(h1) EXCEPT !.recording = FALSE]

\* vad.start() / vad.pause() of useMicVAD: pausing drops the segment the
\* gate was in without an event
VadStart(h) ==
    [h EXCEPT !.vadOn = TRUE]

VadPause(h) ==
    [h EXCEPT !.vadOn = FALSE, !.vadSpeech = FALSE]

(***************************************************************************)
(* useWhisper: stop and the full-session transcription                     *)
(***************************************************************************)
\* lines 492-495; recorder.current.destroy() on undefined throws (caught
\* at line 497) before the buffers are cleared
Finalize(h) ==
    IF h.recorder = 0
    THEN h
    ELSE LET r  == h.recorder
             h1 == [h EXCEPT !.recs[r].state = "destroyed", !.chunks = <<>>]
         IN  [ClearSpeechChunks(h1) EXCEPT !.recorder = 0]

\* lines 590-602: the caller's onTranscribe when given, else the hosted API
Dispatch(h, blob) ==
    LET via == IF h.cfg.callback THEN "callback" ELSE "api"
    IN  [Issue(h, "full", via, blob) EXCEPT
            !.stops = Append(@, [pc |-> "net", rec |-> 0, blob |-> blob])]

OnTranscribing_LastSpan(h) ==
    IF h.recorder # 0 /\ h.recs[h.recorder].state = "stopped"
    THEN LET blob == [src |-> "recorder", ids |-> h.speechChunks]
             h1   == [h EXCEPT !.transcribing = TRUE]
         IN  IF h.cfg.removeSilence
             THEN [h1 EXCEPT !.stops = Append(@, [pc |-> "ff", rec |-> 0,
                                                 blob |-> blob])]
             ELSE Dispatch(h1, blob)
    ELSE Finalize(h)

\* lines 538-548, entered from onStopRecording
OnTranscribing(h) ==
    IF h.recorder # 0 /\ h.recs[h.recorder].state = "stopped"
    THEN LET blob == GetBlob(h, h.recorder)
             h1   == [h EXCEPT !.transcribing = TRUE]
         IN  IF h.cfg.removeSilence
             THEN [h1 EXCEPT !.stops = Append(@, [pc |-> "ff", rec |-> 0,
                                                 blob |-> blob])]
             ELSE Dispatch(h1, blob)
    ELSE Finalize(h)

\* lines 481-491: after the recorder stopped
AfterStop(h) ==
    LET h1 == [OnStopTimeout(OnStopStreaming(h)) EXCEPT !.recording = FALSE]
    IN  IF h.cfg.autoTranscribe THEN OnTranscribing(h1)
        ELSE IF h1.recorder = 0 THEN h1
        ELSE Finalize([h1 EXCEPT !.transcript =
                 [blob |-> GetBlob(h1, h1.recorder), text |-> Undefined]])

\* lines 474-480: RecordRTC marks the recorder stopped at once and calls
\* back when the recording is complete
OnStopRecording(h) ==
    IF h.recorder = 0 THEN h
    ELSE LET r == h.recorder
         IN  IF h.recs[r].state \in {"recording", "paused"}
             THEN [h EXCEPT !.recs[r].state = "stopped",
                            !.stops = Append(@, [pc |-> "stp", rec |-> r,
                                                 blob |-> Undefined])]
             ELSE AfterStop(h)

\* the stopRecording promise of recorder t.rec settles
StopSettled(h, i, ok) ==
    LET t  == h.stops[i]
        h0 == [h EXCEPT !.stops = RemoveAt(@, i)]
    IN  IF ok
        THEN AfterStop(IF h0.recs[t.rec].state = "destroyed" THEN h0
                       ELSE [h0 EXCEPT !.recs[t.rec].blobReady = TRUE])
        ELSE h0

\* lines 549-589: the silence-trimming pass settles
FfmpegSettled(h, i, out) ==
    LET t  == h.stops[i]
        h0 == [h EXCEPT !.stops = RemoveAt(@, i)]
    IN  CASE out = "speech" ->
               Dispatch(h0, [src |-> "ffmpeg", ids |-> t.blob.ids])
          [] out = "silent" ->
               Finalize([h0 EXCEPT !.transcript =
                            [blob |-> t.blob, text |-> Undefined],
                                   !.transcribing = FALSE])
          [] OTHER ->
               Finalize([h0 EXCEPT !.transcribing = FALSE])

\* the text the backend returns for a payload, and the empty string
TextOf(audio) ==
    [of |-> audio]

EmptyText ==
    [of |-> [src |-> "nothing"]]

FullSettled_BusyOnFailure(h, i, out) ==
    LET t    == h.stops[i]
        h0   == [h EXCEPT !.stops = RemoveAt(@, i)]
        text == IF out = "ok" THEN TextOf(t.blob) ELSE EmptyText
    IN  IF out = "fail"
        THEN Finalize(h0)
        ELSE Finalize([h0 EXCEPT !.transcript = [blob |-> t.blob, text |-> text],
                                 !.transcribing = FALSE])

\* lines 590-609: onTranscribe / onWhispered settles
FullSettled(h, i, out) ==
    LET t    == h.stops[i]
        h0   == [h EXCEPT !.stops = RemoveAt(@, i)]
        text == IF out = "ok" THEN TextOf(t.blob) ELSE EmptyText
    IN  IF out = "fail"
        THEN Finalize([h0 EXCEPT !.transcribing = FALSE])
        ELSE Finalize([h0 EXCEPT !.transcript = [blob |-> t.blob, text |-> text],
                                 !.transcribing = FALSE])

(***************************************************************************)
(* useWhisper: the gate's events, chunk delivery and the span flushes      *)
(***************************************************************************)
\* lines 393-398
OnStartSpeaking(h) ==
    OnStopTimeout([h EXCEPT !.speaking = TRUE, !.isSpeaking = TRUE])

\* mergeWavChunks(speechChunks.current) followed by onWhispered(file), lines
\* 413-417 and 646-650: one chunk is returned at once and the request leaves
\* in the same turn; with more, the merge awaits each chunk's arrayBuffer()
\* while iterating the array it was handed
StartFlush(h, kind) ==
    LET arr == h.speechChunks
    IN  IF Len(arr) = 1
        THEN [Issue(h, kind, "api", [src |-> "merge", ids |-> arr]) EXCEPT
                 !.flushes = Append(@, [kind |-> kind, pc |-> "net",
                                        arr |-> arr, live |-> FALSE])]
        ELSE [h EXCEPT !.flushes = Append(@, [kind |-> kind, pc |-> "merge",
                                              arr |-> arr, live |-> TRUE])]

OnStopSpeaking_FlushAlways(h) ==
    LET h1 == [h EXCEPT !.speaking = FALSE, !.isSpeaking = FALSE]
    IN  IF h1.cfg.streaming
        THEN StartFlush(h1, "speechEnd")
        ELSE IF h1.cfg.nonStop THEN OnStartTimeout(h1) ELSE h1

\* lines 405-432 up to the first await
OnStopSpeaking(h) ==
    LET h1 == [h EXCEPT !.speaking = FALSE, !.isSpeaking = FALSE]
    IN  IF Len(h1.speechChunks) > 0 /\ h1.cfg.streaming
        THEN StartFlush(h1, "speechEnd")
        ELSE IF h1.cfg.nonStop THEN OnStartTimeout(h1) ELSE h1

OnDataAvailable_AlwaysSpan(h, data, due) ==
    IF ~(h.cfg.streaming /\ h.recorder # 0) THEN h
    ELSE LET h2 == [h EXCEPT !.chunks = Append(@, data),
                             !.speechChunks = Append(@, data),
                             !.flushes = PushLive(@, data),
                             !.chunkSpan[data] = h.spanId]
         IN  IF (h2.lastTranscriptionTime = 0 \/ due)
                /\ h2.isSpeaking
                /\ h2.recs[h2.recorder].state = "recording"
             THEN StartFlush(h2, "interim")
             ELSE h2

\* lines 618-665 up to the first await.  due: whether more than 2000 ms
\* passed since the Date.now() reading kept in lastTranscriptionTime; with
\* the initial 0 kept there, every reading is later by more than that
OnDataAvailable(h, data, due) ==
    IF ~(h.cfg.streaming /\ h.recorder # 0) THEN h
    ELSE LET h1 == [h EXCEPT !.chunks = Append(@, data)]
         IN  IF ~h1.isSpeaking THEN h1
             ELSE LET h2  == [h1 EXCEPT !.speechChunks = Append(@, data),
                                        !.flushes = PushLive(@, data),
                                        !.chunkSpan[data] = h.spanId]
                  IN  IF (h2.lastTranscriptionTime = 0 \/ due)
                         /\ Len(h2.speechChunks) > 0
                         /\ h2.recs[h2.recorder].state = "recording"
                      THEN StartFlush(h2, "interim")
                      ELSE h2

\* the merge read its last chunk: the file is built and the request leaves
MergeSettled(h, i) ==
    LET t  == h.flushes[i]
    IN  [Issue(h, t.kind, "api", [src |-> "merge", ids |-> t.arr]) EXCEPT
            !.flushes[i] = [t EXCEPT !.pc = "net", !.live = FALSE]]

\* lines 417-431 (speech end) and 650-655 (interim): onWhispered settles
FlushSettled(h, i, out) ==
    LET t  == h.flushes[i]
        h0 == [h EXCEPT !.flushes = RemoveAt(@, i)]
        h1 == IF out = "ok"
              THEN [h0 EXCEPT !.transcript.text =
                        TextOf([src |-> "merge", ids |-> t.arr])]
              ELSE h0
    IN  IF t.kind = "speechEnd"
        THEN LET h2 == IF out = "fail" THEN h0 ELSE ClearSpeechChunks(h1)
             IN  IF h.cfg.nonStop THEN OnStartTimeout(h2) ELSE h2
        ELSE IF out = "fail" THEN h0
             ELSE [h1 EXCEPT !.lastTranscriptionTime = 1]

\* lines 250-271: the cleanup of the unmount effect
Cleanup(h) ==
    LET h1 == ClearSpeechChunks([VadPause(h) EXCEPT !.chunks = <<>>])
        h2 == IF h1.recorder # 0
              THEN [h1 EXCEPT !.recs[h1.recorder].state = "destroyed",
                              !.recorder = 0]
              ELSE h1
    IN  OnStopStreaming(OnStopTimeout(h2))

(***************************************************************************)
(* useWhisper: the actions                                                 *)
(***************************************************************************)
InBounds(h) ==
    /\ h.nGum + h.nImp + Len(h.stops) + Len(h.flushes) <= h.lim.tasks
    /\ h.nStreams <= h.lim.streams /\ Len(h.recs) <= h.lim.recs
    /\ h.nCalls <= h.lim.calls /\ h.spanId <= h.lim.spans

\* progress of the scenario "start, speech start, chunks, speech end" with
\* nothing else happening
Scn(h, e) ==
    CASE e = "startRecording" -> IF h.scn = "fresh" THEN "started" ELSE "off"
      [] e = "speechStart"    -> IF h.scn = "started" /\ h.recording
                                 THEN "speaking" ELSE "off"
      [] e = "speechEnd"      -> IF h.scn = "speaking" THEN "ended" ELSE "off"
      [] e \in {"pauseRecording", "stopRecording", "timer", "unmount", "denied"}
                              -> "off"
      [] OTHER                -> h.scn

\* what the step is remembered as.  "stopRun": a stopRecording() call made
\* with no other stop in flight is suspended and nothing else has run since
\* it was made; "stopEnd": such a call has just returned; "other" otherwise
Class(e, h2) ==
    CASE e = "stopRecording" ->
            IF Len(hk.stops) # 0 THEN "other"
            ELSE IF Len(h2.stops) = 0 THEN "stopEnd" ELSE "stopRun"
      [] e \in {"stopped", "ffmpeg", "fullSettled", "fullFailed"}
           /\ ev = "stopRun" ->
            IF Len(h2.stops) # 0 THEN "stopRun" ELSE "stopEnd"
      [] OTHER -> "other"

Step(e, h2) ==
    /\ comp = "hook"
    /\ InBounds(h2)
    /\ hk' = [h2 EXCEPT !.scn = Scn(hk, e)]
    /\ ev' = Class(e, h2)
    /\ UNCHANGED <<comp, mIn, mOut, ar, ws>>

\* lines 287-290
StartRecording ==
    /\ comp = "hook"
    /\ hk.mounted
    /\ Step("startRecording", OnStartRecording(VadStart(hk)))

\* lines 295-298
PauseRecording ==
    /\ comp = "hook"
    /\ hk.mounted
    /\ Step("pauseRecording", OnPauseRecording(VadPause(hk)))

\* lines 303-306
StopRecording ==
    /\ comp = "hook"
    /\ hk.mounted
    /\ Step("stopRecording", OnStopRecording(VadPause(hk)))

\* line 384: the idle timeout fires onStopRecording
TimerFire ==
    /\ comp = "hook"
    /\ hk.timerPending > 0
    /\ Step("timer", OnStopRecording([hk EXCEPT !.timerPending = @ - 1]))

Unmount ==
    /\ comp = "hook"
    /\ hk.mounted
    /\ Step("unmount", [Cleanup(hk) EXCEPT !.mounted = FALSE])

GumGranted ==
    /\ comp = "hook"
    /\ hk.nGum > 0
    /\ Step("granted", GumSettled(hk, TRUE))

GumDenied ==
    /\ comp = "hook"
    /\ hk.nGum > 0
    /\ Step("denied", GumSettled(hk, FALSE))

ImportDone ==
    /\ comp = "hook"
    /\ hk.nImp > 0
    /\ Step("imported", ImportSettled(hk))

SpeechStart ==
    /\ comp = "hook"
    /\ hk.vadOn /\ ~hk.vadSpeech
    /\ Step("speechStart", OnStartSpeaking([hk EXCEPT !.vadSpeech = TRUE,
                                                      !.spanId = @ + 1]))

SpeechEnd ==
    /\ comp = "hook"
    /\ hk.vadOn /\ hk.vadSpeech
    /\ Step("speechEnd", OnStopSpeaking([hk EXCEPT !.vadSpeech = FALSE]))

\* a recording recorder with a live stream records one more time slice and,
\* when ondataavailable is wired (lines 332-335), delivers it
RecordSlice ==
    /\ comp = "hook"
    /\ \E r \in 1..Len(hk.recs) :
           /\ hk.recs[r].state = "recording"
           /\ hk.recs[r].stream \in hk.live
           /\ hk.nChunks < hk.lim.chunks
           /\ \E due \in BOOLEAN :
              LET data == hk.nChunks + 1
                  h1   == [hk EXCEPT !.nChunks = data,
                                     !.recs[r].audio = Append(@, data),
                                     !.chunkSpan = Append(@, 0)]
              IN  Step("data", IF hk.cfg.streaming /\ hk.cfg.autoTranscribe
                               THEN OnDataAvailable(h1, data, due) ELSE h1)

StopDone ==
    /\ comp = "hook"
    /\ \E i \in 1..Len(hk.stops) :
           /\ hk.stops[i].pc = "stp"
           /\ \E ok \in BOOLEAN :
                 /\ (~ok => hk.recs[hk.stops[i].rec].state = "destroyed")
                 /\ Step("stopped", StopSettled(hk, i, ok))

FfmpegDone ==
    /\ comp = "hook"
    /\ \E i \in 1..Len(hk.stops) :
           /\ hk.stops[i].pc = "ff"
           /\ \E out \in {"speech", "silent", "fail"} :
                 Step("ffmpeg", FfmpegSettled(hk, i, out))

FullDone ==
    /\ comp = "hook"
    /\ \E i \in 1..Len(hk.stops) :
           /\ hk.stops[i].pc = "net"
           /\ \E out \in {"ok", "empty", "fail"} :
                 Step(IF out = "fail" THEN "fullFailed" ELSE "fullSettled",
                      FullSettled(hk, i, out))

MergeDone ==
    /\ comp = "hook"
    /\ \E i \in 1..Len(hk.flushes) :
           /\ hk.flushes[i].pc = "merge"
           /\ Step("merged", MergeSettled(hk, i))

FlushDone ==
    /\ comp = "hook"
    /\ \E i \in 1..Len(hk.flushes) :
           /\ hk.flushes[i].pc = "net"
           /\ \E out \in {"ok", "empty", "fail"} :
                 Step(IF out = "fail" THEN "flushFailed" ELSE "flushSettled",
                      FlushSettled(hk, i, out))

NextHook ==
    \/ StartRecording \/ PauseRecording \/ StopRecording \/ TimerFire
    \/ Unmount \/ GumGranted \/ GumDenied \/ ImportDone
    \/ SpeechStart \/ SpeechEnd \/ RecordSlice
    \/ StopDone \/ FfmpegDone \/ FullDone \/ MergeDone \/ FlushDone

InitHook ==
    /\ comp = "hook"
    /\ ev = "mount"
    /\ mIn = <<>>
    /\ mOut = "pending"
    /\ hk \in { HookInit(c, Limits) : c \in Configs }
    /\ ar = [mounted |-> FALSE]
    /\ ws = [mounted |-> FALSE]

SpecHook ==
    InitHook /\ [][NextHook]_vars

(***************************************************************************)
(* SpecSessions: the capture session's life cycle alone (start, pause,     *)
(* stop, unmount and what they await), with room for a second microphone   *)
(* stream and a second recorder; no speech and no time slice is delivered  *)
(***************************************************************************)
MaxSessionStreams == 2   \* microphone streams granted in one run
MaxSessionRecs    == 2   \* recorder objects constructed in one run
MaxSessionTasks   == 3   \* handlers suspended at an await at the same time

SessionLimits ==
    [streams |-> MaxSessionStreams, recs |-> MaxSessionRecs, chunks |-> 0,
     calls |-> MaxCalls, tasks |-> MaxSessionTasks, spans |-> 0]

InitSessions ==
    /\ comp = "hook"
    /\ ev = "mount"
    /\ mIn = <<>>
    /\ mOut = "pending"
    /\ hk \in { HookInit(c, SessionLimits) :
                  c \in {DefaultConfig, [DefaultConfig EXCEPT !.nonStop = TRUE]} }
    /\ ar = [mounted |-> FALSE]
    /\ ws = [mounted |-> FALSE]

NextSessions ==
    \/ StartRecording \/ PauseRecording \/ StopRecording \/ TimerFire
    \/ Unmount \/ GumGranted \/ GumDenied \/ ImportDone
    \/ StopDone \/ FullDone

SpecSessions ==
    InitSessions /\ [][NextSessions]_vars

(***************************************************************************)
(* SpecMerge: mergeWavChunks applied to every bounded list of containers   *)
(***************************************************************************)
RECURSIVE SeqsUpTo(_, _)
SeqsUpTo(S, n) ==
    IF n = 0 THEN { <<>> }
    ELSE LET shorter == SeqsUpTo(S, n - 1)
         IN  shorter \cup { Append(s, x) : s \in shorter, x \in S }

InitMerge ==
    /\ comp = "merge"
    /\ ev = "init"
    /\ hk = HookIdle
    /\ ar = [mounted |-> FALSE]
    /\ ws = [mounted |-> FALSE]
    /\ mIn \in (SeqsUpTo(ChunkDescs, MaxMergeChunks) \ { <<>> })
    /\ mOut = "pending"

Merge ==
    /\ comp = "merge"
    /\ mOut = "pending"
    /\ mOut' = MergeWavChunks([i \in 1..Len(mIn) |-> WavBytes(mIn[i])])
    /\ ev' = "merge"
    /\ UNCHANGED <<comp, mIn, hk, ar, ws>>

NextMerge ==
    Merge

SpecMerge ==
    InitMerge /\ [][NextMerge]_vars

(***************************************************************************)
(* AudioRecorder: record with MediaRecorder, transcribe on stop            *)
(***************************************************************************)
MaxRemoteStarts == 2     \* getUserMedia requests of one run
MaxRemoteChunks == 2     \* dataavailable events of one run

MicError   == "Failed to access microphone. Please ensure microphone permissions are granted."
TranscribeError == "Failed to transcribe audio. Please try again."

\* lines 14-17, and the environment: MediaRecorders, streams, pending tasks
RemoteInit ==
    [ mounted |-> TRUE,
      isRecording |-> FALSE,
      isProcessing |-> FALSE,
      mediaRecorderRef |-> 0,
      chunksRef |-> <<>>,
      recs |-> <<>>,          \* MediaRecorders: [state, stream]
      live |-> {},            \* streams whose tracks are live
      nStarts |-> 0,
      nGum |-> 0,             \* startRecording awaiting getUserMedia
      tasks |-> <<>>,         \* [pc |-> "onstop" | "fetch", rec, blob]
      nData |-> 0,
      errors |-> <<>>,        \* strings handed to onError
      texts |-> <<>>,         \* payloads whose text was handed to onTranscription
      nFetch |-> 0 ]

\* lines 58-67: up to the await of getUserMedia
AR_StartRecording(a) ==
    [a EXCEPT !.nGum = @ + 1, !.nStarts = @ + 1]

\* lines 69-96 (granted) and 97-101 (rejected)
AR_GumSettled(a, granted) ==
    LET a0 == [a EXCEPT !.nGum = @ - 1]
        r  == Len(a.recs) + 1
    IN  IF granted
        THEN [a0 EXCEPT !.recs = Append(@, [state |-> "recording", stream |-> r]),
                        !.live = @ \cup {r},
                        !.mediaRecorderRef = r,
                        !.chunksRef = <<>>,
                        !.isRecording = TRUE]
        ELSE [a0 EXCEPT !.errors = Append(@, MicError)]

AR_StopRecording_NoStateTest(a) ==
    IF a.mediaRecorderRef # 0
    THEN LET r == a.mediaRecorderRef
         IN  [a EXCEPT !.recs[r].state = "inactive",
                       !.tasks = Append(@, [pc |-> "onstop", rec |-> r,
                                            blob |-> <<>>]),
                       !.isRecording = FALSE,
                       !.isProcessing = TRUE]
    ELSE a

\* lines 104-110; MediaRecorder.stop() makes the recorder inactive at once
\* and queues its stop event
AR_StopRecording(a) ==
    IF a.mediaRecorderRef # 0 /\ a.recs[a.mediaRecorderRef].state = "recording"
    THEN LET r == a.mediaRecorderRef
         IN  [a EXCEPT !.recs[r].state = "inactive",
                       !.tasks = Append(@, [pc |-> "onstop", rec |-> r,
                                            blob |-> <<>>]),
                       !.isRecording = FALSE,
                       !.isProcessing = TRUE]
    ELSE a

\* lines 76-80: a non-empty slice is pushed to chunksRef
AR_DataAvailable(a, data) ==
    [a EXCEPT !.chunksRef = Append(@, data), !.nData = data]

\* lines 82-86 and 19-36: the stop event builds the blob from chunksRef and
\* transcribeAudio posts it
AR_OnStop(a, i) ==
    [a EXCEPT !.tasks[i] = [@ EXCEPT !.pc = "fetch", !.blob = a.chunksRef],
              !.nFetch = @ + 1]

\* lines 38-53 and 88-91: the request settles; out is "text", "blank",
\* "status" (response not ok) or "network" (fetch or json rejected)
AR_FetchSettled(a, i, out) ==
    LET t  == a.tasks[i]
        a0 == [a EXCEPT !.tasks = RemoveAt(@, i)]
        a1 == CASE out = "text"  -> [a0 EXCEPT !.texts = Append(@, t.blob)]
                [] out = "blank" -> a0
                [] OTHER         -> [a0 EXCEPT !.errors = Append(@, TranscribeError)]
    IN  [a1 EXCEPT !.isProcessing = FALSE,
                   !.live = @ \ {a.recs[t.rec].stream}]

RemoteStep(e, a2) ==
    /\ comp = "remote"
    /\ ar' = a2
    /\ ev' = e
    /\ UNCHANGED <<comp, mIn, mOut, hk, ws>>

\* lines 112-118 and 128: the button, disabled while processing
ToggleRecording ==
    /\ comp = "remote"
    /\ ~ar.isProcessing
    /\ IF ar.isRecording
       THEN RemoteStep("stopRecording", AR_StopRecording(ar))
       ELSE /\ ar.nStarts < MaxRemoteStarts
            /\ RemoteStep("startRecording", AR_StartRecording(ar))

RemoteGumGranted ==
    /\ comp = "remote"
    /\ ar.nGum > 0
    /\ RemoteStep("granted", AR_GumSettled(ar, TRUE))

RemoteGumDenied ==
    /\ comp = "remote"
    /\ ar.nGum > 0
    /\ RemoteStep("denied", AR_GumSettled(ar, FALSE))

\* a recording MediaRecorder emits a timeslice
RemoteSlice ==
    /\ comp = "remote"
    /\ ar.nData < MaxRemoteChunks
    /\ \E r \in 1..Len(ar.recs) :
          /\ ar.recs[r].state = "recording"
          /\ ar.recs[r].stream \in ar.live
    /\ RemoteStep("data", AR_DataAvailable(ar, ar.nData + 1))

RemoteOnStop ==
    /\ comp = "remote"
    /\ \E i \in 1..Len(ar.tasks) :
           /\ ar.tasks[i].pc = "onstop"
           /\ RemoteStep("onstop", AR_OnStop(ar, i))

RemoteFetchDone ==
    /\ comp = "remote"
    /\ \E i \in 1..Len(ar.tasks) :
           /\ ar.tasks[i].pc = "fetch"
           /\ \E out \in {"text", "blank", "status", "network"} :
                 RemoteStep(IF out \in {"status", "network"} THEN "failed"
                            ELSE "fetched",
                            AR_FetchSettled(ar, i, out))

NextRemote ==
    \/ ToggleRecording \/ RemoteGumGranted \/ RemoteGumDenied
    \/ RemoteSlice \/ RemoteOnStop \/ RemoteFetchDone

InitRemote ==
    /\ comp = "remote"
    /\ ev = "mount"
    /\ mIn = <<>>
    /\ mOut = "pending"
    /\ hk = HookIdle
    /\ ar = RemoteInit
    /\ ws = [mounted |-> FALSE]

SpecRemote ==
    InitRemote /\ [][NextRemote]_vars

(***************************************************************************)
(* WhisperStreamRecorder and the WhisperWasmService it drives              *)
(***************************************************************************)
MaxLocalStarts == 2      \* startStreaming calls of one run
MaxLocalMounts == 2      \* times the component is mounted in one run
MaxLocalChunks == 2      \* full audio buffers processed in one run

NotInitializedError == "Whisper WASM is not initialized yet"
InitError     == "Failed to initialize Whisper: "
StartError    == "Failed to start streaming: "
ProcessError  == "Error processing audio"

\* WhisperStreamRecorder.tsx lines 18-23 and whisperWasm.ts lines 10-13
LocalInit ==
    [ mounted |-> TRUE,
      \* the component
      isInitializing |-> FALSE,
      isInitialized |-> FALSE,
      isStreaming |-> FALSE,
      isProcessing |-> FALSE,
      modelDownloadProgress |-> 0,
      initializeOnceRef |-> FALSE,
      \* the service singleton
      instance |-> FALSE,
      audioContext |-> 0,
      workletNode |-> 0,      \* declared at line 12, assigned nowhere
      svcStreaming |-> FALSE,
      \* the environment
      ctxs |-> <<>>,          \* AudioContexts: "running" or "closed"
      procs |-> {},           \* connected script processors: [ctx, stream]
      live |-> {},            \* streams whose tracks are live
      nStreams |-> 0,
      inits |-> <<>>,         \* initialize() suspended at "module" or "model"
      nGum |-> 0,             \* startStreaming awaiting getUserMedia
      nMounts |-> 1,
      nStarts |-> 0,
      nChunks |-> 0,
      \* what the caller received
      errors |-> <<>>,
      nTexts |-> 0 ]

\* WhisperStreamRecorder.tsx lines 77-81
HandleError(w, msg) ==
    [w EXCEPT !.isProcessing = FALSE, !.isStreaming = FALSE,
              !.errors = Append(@, msg)]

\* whisperWasm.ts lines 368-382
Svc_StopStreaming(w) ==
    LET w0 == [w EXCEPT !.svcStreaming = FALSE]
        w1 == IF w0.workletNode # 0
              THEN [w0 EXCEPT !.procs = {p \in @ : p.ctx # w0.workletNode},
                              !.workletNode = 0]
              ELSE w0
    IN  IF w1.audioContext # 0
        THEN [w1 EXCEPT !.ctxs[w1.audioContext] = "closed", !.audioContext = 0]
        ELSE w1

\* WhisperStreamRecorder.tsx lines 64-68: the cleanup of the effect that
\* rendered with isStreaming = was
EffectCleanup(w, was) ==
    IF was THEN Svc_StopStreaming(w) ELSE w

\* the effect of lines 57-69 runs again whenever isStreaming changed: the
\* cleanup of the previous render first
Rendered(old, w) ==
    IF w.mounted /\ w.isStreaming # old.isStreaming
    THEN EffectCleanup(w, old.isStreaming)
    ELSE w

\* WhisperStreamRecorder.tsx lines 25-40 with whisperWasm.ts lines 48-56: up
\* to the await of loadWasmModule
InitializeWasm(w) ==
    IF w.instance
    THEN [w EXCEPT !.isInitialized = TRUE]
    ELSE [w EXCEPT !.isInitializing = TRUE, !.modelDownloadProgress = 0,
                   !.inits = Append(@, "module")]

\* lines 48-53 of the component: catch and finally of initializeWasm
InitFailed(w, i) ==
    [w EXCEPT !.inits = RemoveAt(@, i),
              !.errors = Append(@, InitError),
              !.isInitializing = FALSE]

\* whisperWasm.ts lines 92-153 settle, then lines 59-64 and 279-346 begin
ModuleSettled(w, i, ok) ==
    IF ok THEN [w EXCEPT !.inits[i] = "model"] ELSE InitFailed(w, i)

\* whisperWasm.ts lines 296-298: the download reports progress
ModelProgress(w, pct) ==
    [w EXCEPT !.modelDownloadProgress = pct]

ModelSettled_NoInstanceTest(w, i, out) ==
    IF out \in {"ok", "null"}
    THEN [w EXCEPT !.inits = RemoveAt(@, i),
                   !.instance = TRUE,
                   !.modelDownloadProgress = 100,
                   !.isInitialized = TRUE,
                   !.isInitializing = FALSE]
    ELSE InitFailed(w, i)

\* whisperWasm.ts lines 301-328 settle, then lines 66-82 and the component's
\* lines 44-53; out is "ok", "store" (cbReady failed), "cancel" or "null"
\* (module.init returned no instance)
ModelSettled(w, i, out) ==
    IF out = "ok"
    THEN [w EXCEPT !.inits = RemoveAt(@, i),
                   !.instance = TRUE,
                   !.modelDownloadProgress = 100,
                   !.isInitialized = TRUE,
                   !.isInitializing = FALSE]
    ELSE InitFailed(w, i)

\* WhisperStreamRecorder.tsx lines 83-91 with whisperWasm.ts lines 158-182:
\* up to the await of getUserMedia
StartStreaming(w) ==
    IF ~w.isInitialized
    THEN [w EXCEPT !.errors = Append(@, NotInitializedError)]
    ELSE LET w1 == [w EXCEPT !.isProcessing = TRUE, !.nStarts = @ + 1]
         IN  IF ~w1.instance \/ w1.svcStreaming
             THEN HandleError(w1, StartError)
             ELSE [w1 EXCEPT !.ctxs = Append(@, "running"),
                             !.audioContext = Len(w1.ctxs) + 1,
                             !.nGum = @ + 1]

\* whisperWasm.ts lines 200-232
SetupAudioProcessing(w, stream) ==
    IF w.audioContext = 0 \/ ~w.instance THEN w
    ELSE [w EXCEPT !.procs = @ \cup {[ctx |-> w.audioContext, stream |-> stream]}]

\* whisperWasm.ts lines 183-194, then WhisperStreamRecorder.tsx lines 92-98
StartSettled(w, granted) ==
    LET w0 == [w EXCEPT !.nGum = @ - 1]
        st == w.nStreams + 1
        w1 == IF granted
              THEN [SetupAudioProcessing(
                        [w0 EXCEPT !.nStreams = st, !.live = @ \cup {st}], st)
                    EXCEPT !.svcStreaming = TRUE]
              ELSE HandleError(w0, StartError)
    IN  [w1 EXCEPT !.isStreaming = TRUE, !.isProcessing = FALSE]

\* WhisperStreamRecorder.tsx lines 101-110
StopStreaming(w) ==
    [Svc_StopStreaming(w) EXCEPT !.isStreaming = FALSE, !.isProcessing = FALSE]

\* whisperWasm.ts lines 223-227 and 237-274: a full buffer is processed; out
\* is "text", "blank" or "throw"
ProcessAudioChunk(w, out) ==
    LET w0 == [w EXCEPT !.nChunks = @ + 1]
    IN  IF ~w.instance THEN w0
        ELSE CASE out = "text"  -> [w0 EXCEPT !.nTexts = @ + 1]
               [] out = "blank" -> w0
               [] OTHER         -> HandleError(w0, ProcessError)

\* state updates of an unmounted component are dropped
Committed(old, w) ==
    IF old.mounted THEN w
    ELSE [w EXCEPT !.isInitializing = old.isInitializing,
                   !.isInitialized = old.isInitialized,
                   !.isStreaming = old.isStreaming,
                   !.isProcessing = old.isProcessing,
                   !.modelDownloadProgress = old.modelDownloadProgress]

LocalStep(e, w2) ==
    /\ comp = "local"
    /\ ws' = Rendered(ws, Committed(ws, w2))
    /\ ev' = e
    /\ UNCHANGED <<comp, mIn, mOut, hk, ar>>

\* lines 57-62: the effect of the first render
MountEffect ==
    /\ comp = "local"
    /\ ws.mounted /\ ~ws.initializeOnceRef
    /\ LocalStep("mount", InitializeWasm([ws EXCEPT !.initializeOnceRef = TRUE]))

\* lines 161 and 173-174: the button
IsDisabled(w) ==
    w.isInitializing \/ w.isProcessing \/ (~w.isInitialized /\ ~w.isStreaming)

\* (with isInitialized false the button calls initializeWasm, and is enabled
\* only while isStreaming is true, which startStreaming never sets then)

ClickStart ==
    /\ comp = "local"
    /\ ws.mounted /\ ~IsDisabled(ws) /\ ws.isInitialized /\ ~ws.isStreaming
    /\ ws.nStarts < MaxLocalStarts
    /\ LocalStep("startStreaming", StartStreaming(ws))

ClickStop ==
    /\ comp = "local"
    /\ ws.mounted /\ ~IsDisabled(ws) /\ ws.isInitialized /\ ws.isStreaming
    /\ LocalStep("stopStreaming", StopStreaming(ws))

ModuleLoaded ==
    /\ comp = "local"
    /\ \E i \in 1..Len(ws.inits) :
           /\ ws.inits[i] = "module"
           /\ \E ok \in BOOLEAN : LocalStep("module", ModuleSettled(ws, i, ok))

DownloadProgress ==
    /\ comp = "local"
    /\ \E i \in 1..Len(ws.inits) : ws.inits[i] = "model"
    /\ ws.modelDownloadProgress < 50
    /\ LocalStep("progress", ModelProgress(ws, 50))

ModelLoaded ==
    /\ comp = "local"
    /\ \E i \in 1..Len(ws.inits) :
           /\ ws.inits[i] = "model"
           /\ \E out \in {"ok", "store", "cancel", "null"} :
                 LocalStep(IF out = "ok" THEN "initialized" ELSE "initFailed",
                           ModelSettled(ws, i, out))

LocalGumGranted ==
    /\ comp = "local"
    /\ ws.nGum > 0
    /\ LocalStep("granted", StartSettled(ws, TRUE))

LocalGumDenied ==
    /\ comp = "local"
    /\ ws.nGum > 0
    /\ LocalStep("denied", StartSettled(ws, FALSE))

\* a processor of a running context with a live stream fills its buffer
AudioProcess ==
    /\ comp = "local"
    /\ ws.nChunks < MaxLocalChunks
    /\ \E p \in ws.procs : ws.ctxs[p.ctx] = "running" /\ p.stream \in ws.live
    /\ \E out \in {"text", "blank", "throw"} :
          LocalStep(IF out = "throw" THEN "processFailed" ELSE "processed",
                    ProcessAudioChunk(ws, out))

\* lines 64-68: the cleanup of the last render
LocalUnmount ==
    /\ comp = "local"
    /\ ws.mounted
    /\ LocalStep("unmount",
                 [EffectCleanup(ws, ws.isStreaming) EXCEPT !.mounted = FALSE])

\* the component is mounted again, with fresh state, over the same service
Remount ==
    /\ comp = "local"
    /\ ~ws.mounted /\ ws.inits = <<>> /\ ws.nGum = 0
    /\ ws.nMounts < MaxLocalMounts
    /\ ws' = [ws EXCEPT !.mounted = TRUE,
                        !.isInitializing = FALSE,
                        !.isInitialized = FALSE,
                        !.isStreaming = FALSE,
                        !.isProcessing = FALSE,
                        !.modelDownloadProgress = 0,
                        !.initializeOnceRef = FALSE,
                        !.nMounts = @ + 1]
    /\ ev' = "render"
    /\ UNCHANGED <<comp, mIn, mOut, hk, ar>>

NextLocal ==
    \/ MountEffect \/ ClickStart \/ ClickStop
    \/ ModuleLoaded \/ DownloadProgress \/ ModelLoaded
    \/ LocalGumGranted \/ LocalGumDenied \/ AudioProcess \/ LocalUnmount
    \/ Remount

InitLocal ==
    /\ comp = "local"
    /\ ev = "render"
    /\ mIn = <<>>
    /\ mOut = "pending"
    /\ hk = HookIdle
    /\ ar = [mounted |-> FALSE]
    /\ ws = LocalInit

SpecLocal ==
    InitLocal /\ [][NextLocal]_vars

(***************************************************************************)
(* SpecAll: one of the three recorders is mounted                          *)
(***************************************************************************)
InitAll ==
    InitHook \/ InitRemote \/ InitLocal

NextAll ==
    NextHook \/ NextRemote \/ NextLocal

SpecAll ==
    InitAll /\ [][NextAll]_vars

(***************************************************************************)
(* WhisperWasmService under any caller: the exported singleton's methods   *)
(* are called in any order, each asynchronous one settling later            *)
(***************************************************************************)
MaxEngineInits  == 2     \* initialize calls of one run
MaxEngineStarts == 2     \* startStreaming calls of one run
MaxEngineChunks == 2     \* full audio buffers processed in one run
MaxEngineBlocks == 25    \* audio blocks delivered in one run
ShortChunkDuration == 1000   \* a chunkDuration (ms) a caller supplies

\* whisperWasm.ts line 208: samples of one script-processor block
BlockSize == 4096

\* whisperWasm.ts line 172: the sample rate of every AudioContext opened
EngineSampleRate == 16000

\* whisperWasm.ts line 18: defaultConfig.chunkDuration, in ms
DefaultChunkDuration == 3000

\* whisperWasm.ts lines 25-34: the keys of modelUrls
Tiers == {"tiny", "base", "small", "medium", "large"}

\* the modelSize values a caller passes
EngineModels == {"tiny", "huge"}

\* whisperWasm.ts lines 15-22: the fields of defaultConfig that are read
DefaultEngineConfig ==
    [modelSize |-> "tiny", chunkDuration |-> DefaultChunkDuration]

\* the Partial<StreamingConfig> values a caller passes to initialize
EngineConfigs ==
    {[modelSize |-> m] : m \in EngineModels}
        \cup {[modelSize |-> "tiny", chunkDuration |-> ShortChunkDuration]}

\* whisperWasm.ts line 52: { ...this.defaultConfig, ...config }
FinalConfig(config) ==
    [k \in DOMAIN DefaultEngineConfig |->
        IF k \in DOMAIN config THEN config[k] ELSE DefaultEngineConfig[k]]

RECURSIVE SeqSum(_)
SeqSum(s) ==
    IF s = <<>> THEN 0 ELSE Head(s) + SeqSum(Tail(s))

\* whisperWasm.ts lines 10-13, with the environment the service drives and
\* what its caller observed
EngineInit ==
    [ mounted |-> FALSE,
      instance |-> FALSE,
      audioContext |-> 0,
      workletNode |-> 0,
      svcStreaming |-> FALSE,
      \* the environment
      ctxs |-> <<>>,          \* AudioContexts: "running" or "closed"
      procs |-> {},           \* connected script processors: [ctx, stream]
      live |-> {},            \* streams whose tracks are live
      nStreams |-> 0,
      inits |-> <<>>,         \* initialize() suspended:
                              \*   [pc, model, chunkDuration]
      nGum |-> 0,             \* startStreaming awaiting getUserMedia
      \* lines 210-211, per granted stream: the variables the stream's
      \* onaudioprocess closure keeps
      audioBuffer |-> <<>>,   \* blocks buffered, by their arrival number
      bufferDuration |-> <<>>,  \* samples counted into bufferDuration
      \* history
      received |-> <<>>,      \* per stream: blocks delivered so far
      fedBlocks |-> <<>>,     \* per stream: blocks passed to set_audio
      cfgChunkDuration |-> 0, \* finalConfig.chunkDuration of the initialize
                              \*   that made the instance (0: none yet)
      nInits |-> 0,           \* initialize calls
      nScripts |-> 0,         \* module bootstraps (script loads) begun
      nDownloads |-> 0,       \* loadRemote calls
      nStarts |-> 0,          \* startStreaming calls
      nChunks |-> 0,
      nFed |-> 0,             \* set_audio calls
      nStatus |-> 0,          \* set_status("disposed") calls
      disposed |-> FALSE,     \* dispose() was called, no initialize() since
      last |-> "none",        \* how the latest settled call ended
      errors |-> <<>> ]       \* strings passed to onError

\* whisperWasm.ts lines 48-56 and 92-153: up to the await of loadWasmModule;
\* the helpers script is requested at line 151
Svc_Initialize(w, config) ==
    LET finalConfig == FinalConfig(config)
    IN  [w EXCEPT !.nInits = @ + 1,
                  !.nScripts = @ + 1,
                  !.disposed = FALSE,
                  !.inits = Append(@, [pc |-> "module",
                                       model |-> finalConfig.modelSize,
                                       chunkDuration |-> finalConfig.chunkDuration])]

\* lines 83-86: initialize rejects
Svc_InitRejected(w, i, why) ==
    [w EXCEPT !.inits = RemoveAt(@, i), !.last = why]

\* loadWasmModule settles (lines 99-108, 145-150); then lines 59-64 and
\* 279-346 up to loadRemote
Svc_ModuleSettled(w, i, ok) ==
    IF ~ok THEN Svc_InitRejected(w, i, "InitFailed")
    ELSE IF w.inits[i].model \notin Tiers
         THEN Svc_InitRejected(w, i, "Unsupported")
         ELSE [w EXCEPT !.inits[i].pc = "model", !.nDownloads = @ + 1]

\* loadRemote settles (lines 301-328); then lines 66-82.  out is "ok",
\* "store", "cancel" or "null"
Svc_ModelSettled(w, i, out) ==
    IF out = "ok"
    THEN [w EXCEPT !.inits = RemoveAt(@, i), !.instance = TRUE, !.last = "ok",
                   !.cfgChunkDuration = w.inits[i].chunkDuration]
    ELSE Svc_InitRejected(w, i, "InitFailed")

Svc_StartStreaming_NoStreamingTest(w) ==
    LET w1 == [w EXCEPT !.nStarts = @ + 1]
    IN  IF ~w1.instance
        THEN [w1 EXCEPT !.last = "NotInitialized"]
        ELSE [w1 EXCEPT !.ctxs = Append(@, "running"),
                        !.audioContext = Len(w1.ctxs) + 1,
                        !.nGum = @ + 1]

\* whisperWasm.ts lines 158-182: up to the await of getUserMedia
Svc_StartStreaming(w) ==
    LET w1 == [w EXCEPT !.nStarts = @ + 1]
    IN  IF ~w1.instance
        THEN [w1 EXCEPT !.last = "NotInitialized"]
        ELSE IF w1.svcStreaming
        THEN [w1 EXCEPT !.last = "AlreadyStreaming"]
        ELSE [w1 EXCEPT !.ctxs = Append(@, "running"),
                        !.audioContext = Len(w1.ctxs) + 1,
                        !.nGum = @ + 1]

\* whisperWasm.ts lines 183-194
Svc_StartSettled(w, granted) ==
    LET w0 == [w EXCEPT !.nGum = @ - 1]
        st == w.nStreams + 1
    IN  IF granted
        THEN [SetupAudioProcessing(
                  [w0 EXCEPT !.nStreams = st, !.live = @ \cup {st}], st)
              EXCEPT !.svcStreaming = TRUE, !.last = "ok",
                     !.audioBuffer = Append(@, <<>>),
                     !.bufferDuration = Append(@, 0),
                     !.received = Append(@, 0),
                     !.fedBlocks = Append(@, <<>>)]
        ELSE [w0 EXCEPT !.errors = Append(@, StartError), !.last = "ok"]

\* whisperWasm.ts lines 237-274: the blocks are copied one after the other
\* into one array, which set_audio receives; out is "text", "blank" or
\* "throw"
Svc_ProcessAudioChunk(w, p, audioChunks, out) ==
    LET w0 == [w EXCEPT !.nChunks = @ + 1]
    IN  IF ~w.instance THEN w0
        ELSE LET w1 == [w0 EXCEPT !.nFed = @ + 1,
                                  !.fedBlocks[p] = @ \o audioChunks]
             IN  CASE out = "text"  -> w1
                   [] out = "blank" -> w1
                   [] OTHER         -> [w1 EXCEPT !.errors = Append(@, ProcessError)]

\* whisperWasm.ts line 212: the duration at which a buffer is processed, ms
TargetDuration ==
    DefaultEngineConfig.chunkDuration

\* bufferDuration >= targetDuration, both in seconds in the code: samples
\* counted / sample rate against ms / 1000
DurationReached(samples, ms) ==
    samples * 1000 >= ms * EngineSampleRate

OnAudioProcess_NoReset(w, p, out) ==
    LET b   == w.received[p] + 1
        buf == Append(w.audioBuffer[p], b)
        dur == IF w.audioContext # 0
               THEN w.bufferDuration[p] + BlockSize
               ELSE w.bufferDuration[p]
        w1  == [w EXCEPT !.received[p] = b,
                         !.audioBuffer[p] = buf,
                         !.bufferDuration[p] = dur]
    IN  IF DurationReached(dur, TargetDuration)
        THEN [Svc_ProcessAudioChunk(w1, p, buf, out) EXCEPT
                 !.bufferDuration[p] = 0]
        ELSE w1

\* whisperWasm.ts lines 214-228: onaudioprocess of the processor wired to
\* stream p receives one block
OnAudioProcess(w, p, out) ==
    LET b   == w.received[p] + 1
        buf == Append(w.audioBuffer[p], b)
        dur == IF w.audioContext # 0
               THEN w.bufferDuration[p] + BlockSize
               ELSE w.bufferDuration[p]
        w1  == [w EXCEPT !.received[p] = b,
                         !.audioBuffer[p] = buf,
                         !.bufferDuration[p] = dur]
    IN  IF DurationReached(dur, TargetDuration)
        THEN [Svc_ProcessAudioChunk(w1, p, buf, out) EXCEPT
                 !.audioBuffer[p] = <<>>,
                 !.bufferDuration[p] = 0]
        ELSE w1

\* whisperWasm.ts lines 448-458
Svc_Dispose(w) ==
    LET w1 == [Svc_StopStreaming(w) EXCEPT !.disposed = TRUE]
    IN  IF w1.instance
        THEN [w1 EXCEPT !.nStatus = @ + 1, !.instance = FALSE]
        ELSE w1

EngineStep(e, w2) ==
    /\ comp = "engine"
    /\ ws' = w2
    /\ ev' = e
    /\ UNCHANGED <<comp, mIn, mOut, hk, ar>>

EngInitialize ==
    /\ comp = "engine"
    /\ ws.nInits < MaxEngineInits
    /\ \E c \in EngineConfigs : EngineStep("initialize", Svc_Initialize(ws, c))

EngModuleLoaded ==
    /\ comp = "engine"
    /\ \E i \in 1..Len(ws.inits) :
           /\ ws.inits[i].pc = "module"
           /\ \E ok \in BOOLEAN :
                 EngineStep("module", Svc_ModuleSettled(ws, i, ok))

EngModelLoaded ==
    /\ comp = "engine"
    /\ \E i \in 1..Len(ws.inits) :
           /\ ws.inits[i].pc = "model"
           /\ \E out \in {"ok", "store", "cancel", "null"} :
                 EngineStep("model", Svc_ModelSettled(ws, i, out))

EngStartStreaming ==
    /\ comp = "engine"
    /\ ws.nStarts < MaxEngineStarts
    /\ EngineStep("startStreaming", Svc_StartStreaming(ws))

EngGumGranted ==
    /\ comp = "engine"
    /\ ws.nGum > 0
    /\ EngineStep("granted", Svc_StartSettled(ws, TRUE))

EngGumDenied ==
    /\ comp = "engine"
    /\ ws.nGum > 0
    /\ EngineStep("denied", Svc_StartSettled(ws, FALSE))

EngStopStreaming ==
    /\ comp = "engine"
    /\ EngineStep("stopStreaming", Svc_StopStreaming(ws))

EngDispose ==
    /\ comp = "engine"
    /\ EngineStep("dispose", Svc_Dispose(ws))

\* a processor of a running context with a live stream receives a block
EngAudioProcess ==
    /\ comp = "engine"
    /\ SeqSum(ws.received) < MaxEngineBlocks
    /\ \E p \in ws.procs :
          /\ ws.ctxs[p.ctx] = "running" /\ p.stream \in ws.live
          /\ \E out \in {"text", "blank", "throw"} :
                LET w2 == OnAudioProcess(ws, p.stream, out)
                IN  /\ w2.nChunks <= MaxEngineChunks
                    /\ EngineStep(IF w2.nChunks > ws.nChunks
                                  THEN "processed" ELSE "block", w2)

NextEngine ==
    \/ EngInitialize \/ EngModuleLoaded \/ EngModelLoaded
    \/ EngStartStreaming \/ EngGumGranted \/ EngGumDenied
    \/ EngStopStreaming \/ EngDispose \/ EngAudioProcess

InitEngine ==
    /\ comp = "engine"
    /\ ev = "load"
    /\ mIn = <<>>
    /\ mOut = "pending"
    /\ hk = HookIdle
    /\ ar = [mounted |-> FALSE]
    /\ ws = EngineInit

SpecEngine ==
    InitEngine /\ [][NextEngine]_vars

(***************************************************************************)
(* Reading a RIFF/WAVE file the way the container format defines it        *)
(***************************************************************************)
\* the data sub-chunk of a file: sub-chunks are walked from offset 12, each
\* 8 + size bytes long plus the pad byte after an odd size
RECURSIVE RiffData(_, _)
RiffData(buf, off) ==
    IF off + 8 > Len(buf)
    THEN [found |-> FALSE, size |-> 0, payload |-> <<>>]
    ELSE LET id   == SubSeq(buf, off + 1, off + 4)
             size == GetUint32(buf, off + 4)
         IN  IF id = DATA
             THEN [found |-> TRUE, size |-> size,
                   payload |-> Slice(buf, off + 8, off + 8 + size)]
             ELSE RiffData(buf, off + 8 + size + (size % 2))

\* the format fields of a file whose fmt sub-chunk comes first
RiffFormat(buf) ==
    [ch |-> GetUint16(buf, 22), rate |-> GetUint32(buf, 24),
     bits |-> GetUint16(buf, 34)]

MergeInputs ==
    [i \in 1..Len(mIn) |-> WavBytes(mIn[i])]

InputPayloads ==
    [i \in 1..Len(mIn) |-> RiffData(MergeInputs[i], 12).payload]

ConsistentFormats ==
    \A i \in 1..Len(mIn) : RiffFormat(MergeInputs[i]) = RiffFormat(MergeInputs[1])

\* C1: merging N >= 1 chunks of one format gives a file whose declared data
\* length is the sum of the chunks' payload lengths and whose format fields
\* (channels, sample rate, bits per sample) are those of the first chunk
C1_LengthAndFormat ==
    (mOut # "pending" /\ ConsistentFormats) =>
        /\ RiffData(mOut, 12).found
        /\ RiffData(mOut, 12).size
              = SumSeq([i \in 1..Len(mIn) |-> Len(InputPayloads[i])])
        /\ RiffFormat(mOut) = RiffFormat(MergeInputs[1])

\* C2: for two or more chunks the merged payload is the concatenation, in
\* order, of the payload of each chunk's data sub-chunk, whatever metadata
\* sub-chunks precede it
C2_PayloadConcatenation ==
    (mOut # "pending" /\ Len(mIn) >= 2) =>
        RiffData(mOut, 12).payload = Flatten(InputPayloads)

(***************************************************************************)
(* useWhisper: speech spans                                                *)
(***************************************************************************)
\* the chunks delivered while span n was open, in arrival order
SpanChunks(n) ==
    SelectSeq([i \in 1..Len(hk.chunkSpan) |-> i],
              LAMBDA i : hk.chunkSpan[i] = n)

MergePending ==
    \E i \in 1..Len(hk.flushes) : hk.flushes[i].pc = "merge"

\* the session did nothing but: start, speech start, k >= 1 chunks, speech end
SpanScenarioDone ==
    /\ comp = "hook"
    /\ hk.cfg.streaming
    /\ hk.scn = "ended"
    /\ SpanChunks(1) # <<>>
    /\ ~MergePending

\* C3: in streaming mode, after start, speech start, k >= 1 chunks and speech
\* end, exactly one transcription call was issued, and its payload is the
\* merge of exactly those k chunks
C3_ExactlyOneCallPerSpan ==
    SpanScenarioDone =>
        /\ hk.nCalls = 1
        /\ \A c \in DOMAIN hk.calls :
              c.audio = [src |-> "merge", ids |-> SpanChunks(1)]

\* C4: a speech-end event that finds the span empty issues no transcription
\* call, starts no merge and leaves the transcript as it was
C4_EmptySpanNoCall ==
    [][(SpeechEnd /\ Len(hk.speechChunks) = 0) =>
           /\ hk'.nCalls = hk.nCalls
           /\ hk'.calls = hk.calls
           /\ hk'.flushes = hk.flushes
           /\ hk'.transcript = hk.transcript]_vars

\* a streaming session whose first span ended before any chunk was recorded
C4_Witness ==
    /\ comp = "hook"
    /\ hk.cfg.streaming
    /\ hk.scn = "ended"
    /\ hk.recording
    /\ hk.nChunks = 0
    /\ hk.nCalls = 0

(***************************************************************************)
(* useWhisper: teardown                                                    *)
(***************************************************************************)
\* C5: once the hook is unmounted, whatever it was doing, the gate is
\* paused, both chunk buffers are empty, no recorder exists (none is left
\* undestroyed), no media track is live and no idle timeout is pending
C5_TeardownOnUnmount ==
    (comp = "hook" /\ ~hk.mounted) =>
        /\ ~hk.vadOn
        /\ hk.chunks = <<>> /\ hk.speechChunks = <<>>
        /\ hk.recorder = 0
        /\ \A r \in 1..Len(hk.recs) : hk.recs[r].state = "destroyed"
        /\ hk.stream = 0 /\ hk.live = {}
        /\ ~hk.timeoutStop /\ hk.timerPending = 0

(***************************************************************************)
(* useWhisper: what a stop does with the recording                         *)
(***************************************************************************)
\* everything recorder r recorded since it was started
WholeRecording(r) ==
    [src |-> "recorder", ids |-> hk.recs[r].audio]

\* the stopRecording promise of suspended stop i resolves while its recorder
\* is still the current one and still stopped
StopCompletes(i) ==
    /\ comp = "hook"
    /\ hk.stops[i].pc = "stp"
    /\ hk.recorder = hk.stops[i].rec
    /\ hk.recs[hk.stops[i].rec].state = "stopped"
    /\ Step("stopped", StopSettled(hk, i, TRUE))

Count(calls, c) ==
    IF c \in DOMAIN calls THEN calls[c] ELSE 0

\* the full-session pass over blob has begun: the request has left or, with
\* removeSilence, the trimming pass that feeds it is running
FullPassBegun(i, blob) ==
    /\ hk'.transcribing
    /\ IF hk.cfg.removeSilence
       THEN /\ hk'.stops = Append(RemoveAt(hk.stops, i),
                                  [pc |-> "ff", rec |-> 0, blob |-> blob])
            /\ hk'.nCalls = hk.nCalls
       ELSE LET c == [kind |-> "full",
                      via |-> IF hk.cfg.callback THEN "callback" ELSE "api",
                      audio |-> blob]
            IN  /\ hk'.nCalls = hk.nCalls + 1
                /\ Count(hk'.calls, c) = Count(hk.calls, c) + 1

\* C6: when a stop completes with autoTranscribe, a full-session pass begins
\* on everything the recorder recorded (not on the last speech span); without
\* autoTranscribe no transcription call is ever made and the transcript holds
\* the raw recording and no text
C6_StopTranscribesWholeRecording ==
    [][comp = "hook" =>
          /\ ~hk.cfg.autoTranscribe => (hk'.nCalls = 0 /\ hk'.calls = <<>>)
          /\ \A i \in 1..Len(hk.stops) :
                StopCompletes(i) =>
                    LET whole == WholeRecording(hk.stops[i].rec)
                    IN  IF hk.cfg.autoTranscribe
                        THEN FullPassBegun(i, whole)
                        ELSE hk'.transcript = [blob |-> whole,
                                               text |-> Undefined]]_vars

\* a streaming session was stopped after two chunks of which only the second
\* fell into a speech span, and the full pass went out over both
C6_Witness ==
    /\ comp = "hook"
    /\ hk.cfg.streaming
    /\ SpanChunks(1) = <<2>>
    /\ \E c \in DOMAIN hk.calls :
          c.kind = "full" /\ c.audio = [src |-> "recorder", ids |-> <<1, 2>>]

\* a session without autoTranscribe was stopped and its transcript holds the
\* two recorded chunks and no text
C6_WitnessRaw ==
    /\ comp = "hook"
    /\ ~hk.cfg.autoTranscribe
    /\ hk.transcript = [blob |-> [src |-> "recorder", ids |-> <<1, 2>>],
                        text |-> Undefined]

(***************************************************************************)
(* Stopping twice                                                          *)
(***************************************************************************)
\* C7: a stop called right after a stop has returned does nothing: in the
\* hook no recorder is stopped, no track is stopped, no transcription call
\* is made and no ref or state changes; in AudioRecorder no MediaRecorder is
\* stopped and no state changes
C7_StopIdempotent ==
    /\ (comp = "hook" /\ ev = "stopEnd") =>
           OnStopRecording(VadPause(hk)) = hk
    /\ (comp = "remote" /\ ev = "stopRecording") =>
           AR_StopRecording(ar) = ar

\* a running recording was stopped by a stopRecording() that has returned
C7_Witness ==
    /\ comp = "hook"
    /\ ev = "stopEnd"
    /\ Len(hk.recs) = 1 /\ hk.recs[1].state = "destroyed"
    /\ hk.recs[1].blobReady
    /\ hk.nCalls >= 1

\* AudioRecorder's stop has just stopped a recording MediaRecorder
C7_WitnessRemote ==
    /\ comp = "remote"
    /\ ev = "stopRecording"
    /\ ar.isProcessing
    /\ Len(ar.tasks) = 1

(***************************************************************************)
(* Failures: a refused microphone, a failed transcription, busy flags      *)
(***************************************************************************)
\* C8: when getUserMedia is refused (permission denied, no device), the
\* start it belongs to does not start recording: the recording / streaming
\* flag shown to the user is not raised, and the caller receives an error
\* string
C8_DeniedStartSurfaces ==
    [][/\ GumDenied =>
            /\ hk'.recording = hk.recording
            /\ hk'.errors > hk.errors
       /\ RemoteGumDenied =>
            /\ ar'.isRecording = ar.isRecording
            /\ Len(ar'.errors) > Len(ar.errors)
       /\ LocalGumDenied =>
            /\ (ws.mounted => ~ws'.isStreaming)
            /\ Len(ws'.errors) > Len(ws.errors)]_vars

\* the full-session request of suspended stop i fails
FullFails(i) ==
    /\ hk.stops[i].pc = "net"
    /\ Step("fullFailed", FullSettled(hk, i, "fail"))

\* the request of suspended AudioRecorder task i fails: a response that is
\* not ok, or a rejected fetch
FetchFails(i) ==
    /\ ar.tasks[i].pc = "fetch"
    /\ \E out \in {"status", "network"} :
          RemoteStep("failed", AR_FetchSettled(ar, i, out))

\* C10: when the transcription backend answers with an error status or the
\* request fails, the caller's onError receives a non-empty string and the
\* processing flag is false afterwards
C10_BackendFailureReported ==
    [][/\ comp = "hook" =>
            \A i \in 1..Len(hk.stops) :
               FullFails(i) => (hk'.errors > hk.errors /\ ~hk'.transcribing)
       /\ comp = "remote" =>
            \A i \in 1..Len(ar.tasks) :
               FetchFails(i) =>
                   /\ Len(ar'.errors) = Len(ar.errors) + 1
                   /\ ar'.errors[Len(ar'.errors)] # ""
                   /\ ~ar'.isProcessing]_vars

\* C9: a busy flag is true only while the work that will reset it is
\* pending: transcribing while a trimming pass or a full-session request of
\* the hook is in flight, isProcessing of AudioRecorder while a stop event
\* or its request is pending, isInitializing and isProcessing of
\* WhisperStreamRecorder while initialize() or startStreaming() is pending
C9_BusyFlagsHavePendingWork ==
    /\ comp = "hook" =>
          (hk.transcribing =>
              \E i \in 1..Len(hk.stops) : hk.stops[i].pc \in {"ff", "net"})
    /\ comp = "remote" =>
          (ar.isProcessing => ar.tasks # <<>>)
    /\ (comp = "local" /\ ws.mounted) =>
          /\ ws.isInitializing => ws.inits # <<>>
          /\ ws.isProcessing => ws.nGum > 0

\* the hook's full-session request went out and failed, and the flag is down
C9_Witness ==
    /\ comp = "hook"
    /\ hk.cfg = DefaultConfig
    /\ hk.nCalls = 1
    /\ hk.stops = <<>>
    /\ hk.transcript.text = Undefined
    /\ hk.recorder = 0 /\ Len(hk.recs) = 1
    /\ ~hk.transcribing

(***************************************************************************)
(* C11: with a caller-supplied onTranscribe callback, every transcription  *)
(* the hook performs (full-session pass, speech-end flush, interim flush)  *)
(* goes to the callback and the hosted API is never called.                *)
(***************************************************************************)
C11_CallbackTakesPrecedence ==
    (comp = "hook" /\ hk.cfg.callback)
        => \A c \in DOMAIN hk.calls : c.via = "callback"

(***************************************************************************)
(* C12: once initialize() has resolved, a further initialize() call        *)
(* resolves at once: it begins no module bootstrap and no model download,  *)
(* so the model is downloaded exactly once.                                *)
(***************************************************************************)
C12_InitializeOnce ==
    [][(EngInitialize /\ ws.instance)
          => (ws'.nScripts = ws.nScripts /\ ws'.inits = ws.inits)]_vars

(***************************************************************************)
(* C13: an initialize() called while another one is in progress detects    *)
(* it and short-circuits: two module bootstraps are never running at the   *)
(* same time, nor two model downloads.                                     *)
(***************************************************************************)
InitsAt(pc) ==
    {i \in 1..Len(ws.inits) : ws.inits[i].pc = pc}

C13_NoConcurrentInitialize ==
    comp = "engine"
        => (Cardinality(InitsAt("module")) <= 1
            /\ Cardinality(InitsAt("model")) <= 1)

(***************************************************************************)
(* C15: initialize() with a model tier that is not one of tiny, base,      *)
(* small, medium, large rejects before any network call: such a call is    *)
(* never found waiting for a script or a model to load.                    *)
(***************************************************************************)
C15_UnsupportedTierFailsFast ==
    comp = "engine"
        => \A i \in 1..Len(ws.inits) : ws.inits[i].model \in Tiers

(***************************************************************************)
(* C14: when initialize() fails (the module bootstrap fails, the model     *)
(* download or its store fails, or the engine's init returns no instance)  *)
(* the engine stays uninitialized, the error is delivered to the user, and *)
(* initialize can be invoked again: a new call starts a new bootstrap,     *)
(* which can succeed.                                                      *)
(***************************************************************************)
InitFails(i, out) ==
    /\ comp = "local"
    /\ i \in 1..Len(ws.inits)
    /\ \/ /\ out = "module"
          /\ ws.inits[i] = "module"
          /\ ws' = Rendered(ws, Committed(ws, ModuleSettled(ws, i, FALSE)))
       \/ /\ out \in {"store", "cancel", "null"}
          /\ ws.inits[i] = "model"
          /\ ws' = Rendered(ws, Committed(ws, ModelSettled(ws, i, out)))

C16_StartStreamingGuards ==
    [][(EngStartStreaming /\ (~ws.instance \/ ws.svcStreaming))
          => /\ ws'.last = IF ~ws.instance THEN "NotInitialized"
                           ELSE "AlreadyStreaming"
             /\ ws'.ctxs = ws.ctxs
             /\ ws'.nGum = ws.nGum
             /\ ws'.live = ws.live
             /\ ws'.procs = ws.procs
             /\ ws'.instance = ws.instance
             /\ ws'.audioContext = ws.audioContext
             /\ ws'.workletNode = ws.workletNode
             /\ ws'.svcStreaming = ws.svcStreaming
             /\ ws'.errors = ws.errors]_vars

\* a second start on the streaming engine failed, and the only pipeline is
\* still the first start's
C16_Witness ==
    /\ comp = "engine"
    /\ ws.last = "AlreadyStreaming"
    /\ ws.svcStreaming
    /\ Len(ws.ctxs) = 1
    /\ ws.nStarts = 2

(***************************************************************************)
(* C17: a start made while the engine is already streaming (or any other   *)
(* invalid-transition call) is ignored silently: onError is not invoked    *)
(* for it and the streaming state shown to the user does not change.       *)
(***************************************************************************)
C17_InvalidTransitionSilent ==
    [][(ClickStart /\ ws.svcStreaming)
          => (ws'.errors = ws.errors /\ ws'.isStreaming = ws.isStreaming)]_vars

(***************************************************************************)
(* C18: stopStreaming() is idempotent and never fails: after it returns    *)
(* the processing node that startStreaming created is disconnected, the    *)
(* audio context is closed, the streaming flag is false, and a second call *)
(* changes nothing.                                                        *)
(***************************************************************************)
C18_StopStreamingReleases ==
    [][EngStopStreaming
          => /\ ~ws'.svcStreaming
             /\ ws'.audioContext = 0
             /\ (ws.audioContext # 0 => ws'.ctxs[ws.audioContext] = "closed")
             /\ \A p \in ws'.procs : p.ctx # ws.audioContext
             /\ Svc_StopStreaming(ws') = ws']_vars

(***************************************************************************)
(* C19: dispose() stops streaming, signals the disposed status to the      *)
(* engine when an instance exists and releases the instance: from any      *)
(* state, once dispose has been called (and initialize not called again)   *)
(* the engine is not streaming, isInitialized() is false, startStreaming   *)
(* fails as not initialized, and no audio is fed to the engine.            *)
(***************************************************************************)
C19_DisposeReleasesEngine ==
    [][/\ EngDispose
            => ws'.nStatus = ws.nStatus + (IF ws.instance THEN 1 ELSE 0)
       /\ (comp = "engine" /\ ws'.disposed)
            => /\ ~ws'.svcStreaming
               /\ ~ws'.instance
               /\ Svc_StartStreaming(ws').last = "NotInitialized"
               /\ (ws.disposed => ws'.nFed = ws.nFed)]_vars

(***************************************************************************)
(* C20: pause called before any start changes nothing: the recording,      *)
(* speaking and transcribing flags, the transcript, the recorder, the      *)
(* stream and the idle timeout stay as they were and no error is raised.   *)
(* In any state, pause changes a recorder only when that recorder is       *)
(* recording, and then only by pausing it.                                 *)
(***************************************************************************)
C20_PauseBeforeStartNoOp ==
    [][PauseRecording
          => /\ hk.recorder = 0
                  => /\ hk'.recording = hk.recording
                     /\ hk'.speaking = hk.speaking
                     /\ hk'.transcribing = hk.transcribing
                     /\ hk'.transcript = hk.transcript
                     /\ hk'.recorder = hk.recorder
                     /\ hk'.stream = hk.stream
                     /\ hk'.live = hk.live
                     /\ hk'.timeoutStop = hk.timeoutStop
                     /\ hk'.timerPending = hk.timerPending
                     /\ hk'.errors = hk.errors
                     /\ hk'.calls = hk.calls
             /\ Len(hk'.recs) = Len(hk.recs)
             /\ \A r \in 1..Len(hk.recs) :
                   hk'.recs[r] # hk.recs[r]
                      => /\ hk.recs[r].state = "recording"
                         /\ hk'.recs[r] = [hk.recs[r] EXCEPT !.state = "paused"]]_vars

\* pause was called on the freshly mounted hook, before any start
C20_Witness ==
    /\ comp = "hook"
    /\ hk.mounted
    /\ hk.scn = "off"
    /\ ev = "other"
    /\ hk.nStreams = 0 /\ hk.nGum = 0 /\ hk.nImp = 0
    /\ hk.recs = <<>>
    /\ hk.errors = 0
    /\ ~hk.recording /\ ~hk.timeoutStop

\* pause was called on a recording recorder
C20_WitnessPaused ==
    /\ comp = "hook"
    /\ hk.recorder # 0
    /\ hk.recs[hk.recorder].state = "paused"
    /\ ~hk.recording

(***************************************************************************)
(* C21: the microphone stream is owned by the active capture session: at   *)
(* every moment at most one acquired stream has live tracks, also when     *)
(* start is invoked again before an earlier start has acquired the         *)
(* microphone.                                                             *)
(***************************************************************************)
C21_OneLiveStream ==
    /\ comp = "hook" => Cardinality(hk.live) <= 1
    /\ comp = "remote" => Cardinality(ar.live) <= 1

\* the same for AudioRecorder alone
C21_OneLiveStreamRemote ==
    comp = "remote" => Cardinality(ar.live) <= 1

(***************************************************************************)
(* C22: mergeWavChunks called with exactly one chunk returns that chunk    *)
(* itself, byte for byte, without re-encoding it.                          *)
(***************************************************************************)
C22_SingleChunkIdentity ==
    (comp = "merge" /\ mOut # "pending" /\ Len(mIn) = 1)
        => mOut = MergeInputs[1]

\* a single chunk carrying a metadata sub-chunk was merged: re-encoding it
\* would have dropped the metadata
C22_Witness ==
    /\ comp = "merge"
    /\ mOut # "pending"
    /\ Len(mIn) = 1
    /\ mIn[1].meta # <<>>
    /\ mOut # BuildWav(mIn[1].fmt.ch, mIn[1].fmt.rate, 16, mIn[1].payload)

(***************************************************************************)
(* C23: a chunk of speech span N is never merged with a chunk of span N+1: *)
(* every transcription payload issued from the speech-span buffer holds    *)
(* chunks of one span only, in every interleaving.                         *)
(***************************************************************************)
SpanCalls ==
    {c \in DOMAIN hk.calls : c.audio.src = "merge"}

Ids(s) ==
    {s[k] : k \in 1..Len(s)}

C23_PayloadOfOneSpan ==
    comp = "hook"
        => \A c \in SpanCalls :
              \A d1, d2 \in Ids(c.audio.ids) : hk.chunkSpan[d1] = hk.chunkSpan[d2]

(***************************************************************************)
(* C24: a flush of the speech span (at speech end, or the interim one      *)
(* during speech) leaves the span's chunk list empty, so no chunk sent in  *)
(* one flush is sent again in another.                                     *)
(***************************************************************************)
C24_FlushClearsSpan ==
    [][comp = "hook"
          => /\ Len(hk'.flushes) > Len(hk.flushes) => hk'.speechChunks = <<>>
             /\ \A c \in DOMAIN hk'.calls :
                   c.audio.src = "merge" => hk'.calls[c] = 1
             /\ \A c1, c2 \in DOMAIN hk'.calls :
                   (c1 # c2 /\ c1.audio.src = "merge" /\ c2.audio.src = "merge")
                      => Ids(c1.audio.ids) \cap Ids(c2.audio.ids) = {}]_vars

(***************************************************************************)
(* C25: no two flushes of the same speech span are in flight at the same   *)
(* time: while a transcription of some chunks is pending, no second        *)
(* transcription over any of those chunks is started.                      *)
(***************************************************************************)
C25_OneFlushInFlight ==
    comp = "hook"
        => \A i, j \in 1..Len(hk.flushes) :
              i # j => Ids(hk.flushes[i].arr) \cap Ids(hk.flushes[j].arr) = {}

(***************************************************************************)
(* C26: at most one idle-stop timer is armed at any time: a timer is armed *)
(* only when none is pending, and the armed one is the one the hook keeps  *)
(* the handle of, so that it is cleared before another is armed.           *)
(***************************************************************************)
C26_SingleIdleTimer ==
    [][comp = "hook"
          => /\ hk'.timerPending <= 1
             /\ hk'.timerPending > hk.timerPending
                   => (hk.timerPending = 0 /\ ~hk.timeoutStop)
             /\ hk'.timerPending = 1 => hk'.timeoutStop]_vars

\* the timer armed at the start was cleared by a speech start and armed
\* again at the speech end
C26_Witness ==
    /\ comp = "hook"
    /\ hk.cfg.nonStop
    /\ hk.recording
    /\ hk.spanId >= 1
    /\ ~hk.isSpeaking
    /\ hk.timerPending = 1

(***************************************************************************)
(* C27: a speech-start event cancels any pending idle-stop timeout: right  *)
(* after it is handled no idle-stop timer is pending; a pause and an       *)
(* explicit stop likewise leave none pending.                              *)
(***************************************************************************)
C27_TimeoutCancelled ==
    [][/\ SpeechStart => hk'.timerPending = 0
       /\ PauseRecording => hk'.timerPending = 0
       /\ (comp = "hook" /\ ev' = "stopEnd") => hk'.timerPending = 0]_vars


(***************************************************************************)
(* C28: every chunk delivered to the hook while it holds a recorder in     *)
(* streaming mode is appended to the all-chunks log; it is appended to the *)
(* speech span exactly when the gate's last report (isSpeaking.current) is *)
(* speaking at the delivery, and every chunk in the payload of a span      *)
(* flush was delivered while speaking.                                     *)
(***************************************************************************)
Delivered ==
    RecordSlice /\ hk.cfg.streaming /\ hk.cfg.autoTranscribe /\ hk.recorder # 0

C29_BufferedFeed ==
    [][comp = "engine"
         => \A p \in 1..Len(ws'.received) :
              /\ ws'.fedBlocks[p] \o ws'.audioBuffer[p]
                    = [k \in 1..ws'.received[p] |-> k]
              /\ ~DurationReached(Len(ws'.audioBuffer[p]) * BlockSize,
                                  DefaultChunkDuration)
              /\ (p <= Len(ws.received) /\ ws'.received[p] # ws.received[p])
                    => LET buf == Append(ws.audioBuffer[p], ws'.received[p])
                       IN  IF DurationReached(Len(buf) * BlockSize,
                                              DefaultChunkDuration)
                           THEN /\ ws'.fedBlocks[p] = ws.fedBlocks[p] \o buf
                                /\ ws'.nFed = ws.nFed + 1
                                /\ ws'.audioBuffer[p] = <<>>
                                /\ ws'.bufferDuration[p] = 0
                           ELSE /\ ws'.fedBlocks[p] = ws.fedBlocks[p]
                                /\ ws'.nFed = ws.nFed
                                /\ ws'.audioBuffer[p] = buf]_vars

\* one pipeline fed two buffers, one of the feeds raised an error, and the
\* next block is buffered
C29_Witness ==
    /\ comp = "engine"
    /\ \E p \in 1..Len(ws.received) :
          /\ ws.received[p] = 25
          /\ Len(ws.fedBlocks[p]) = 24
          /\ ws.audioBuffer[p] = <<25>>
    /\ ws.nFed = 2
    /\ ws.errors = <<ProcessError>>

(***************************************************************************)
(* C30: the duration at which the buffered audio is fed is the             *)
(* chunkDuration of the configuration passed to initialize, and 3 s when   *)
(* the configuration names none: a block is followed by a feed exactly     *)
(* when it makes the buffered duration reach that value.                   *)
(***************************************************************************)
C30_ConfiguredChunkDuration ==
    [][EngAudioProcess
         => \A p \in 1..Len(ws.received) :
               ws'.received[p] # ws.received[p]
                  => ((ws'.nFed = ws.nFed + 1)
                         = DurationReached((Len(ws.audioBuffer[p]) + 1) * BlockSize,
                                           ws.cfgChunkDuration))]_vars


(***************************************************************************)
(* C31: for a list of two or more chunks in which some chunk, at any       *)
(* position, has a data sub-chunk of length zero, mergeWavChunks resolves  *)
(* with a container whose payload is what the scan extracts from the other *)
(* chunks, in order: the empty chunk adds no byte.                         *)
(***************************************************************************)
Contribution(buf) ==
    LET found == FindData(buf, 12)
    IN  IF found[1] THEN found[2] ELSE <<>>

HasEmptyChunk ==
    \E i \in 1..Len(mIn) : mIn[i].payload = <<>>

C31_EmptyChunkAddsNothing ==
    (comp = "merge" /\ mOut # "pending" /\ Len(mIn) >= 2 /\ HasEmptyChunk)
        => /\ RiffData(mOut, 12).found
           /\ RiffData(mOut, 12).payload
                 = Flatten([i \in 1..Len(mIn) |->
                              IF mIn[i].payload = <<>> THEN <<>>
                              ELSE Contribution(MergeInputs[i])])

\* the first chunk is empty and carries an odd-sized metadata sub-chunk, the
\* second holds two bytes, and the merged payload is those two bytes
C31_Witness ==
    /\ comp = "merge" /\ mOut # "pending"
    /\ Len(mIn) = 2
    /\ mIn[1].payload = <<>> /\ mIn[1].meta = <<105>>
    /\ mIn[2].payload = <<7, 9>> /\ mIn[2].meta = <<>>
    /\ RiffData(mOut, 12).payload = <<7, 9>>


(***************************************************************************)
(* C32: the idle-stop timer is never pending while the gate's last report  *)
(* is speaking; in particular the continuation of a speech-end handler     *)
(* that resumes after a new speech start does not arm it.                  *)
(***************************************************************************)
C32_NoIdleTimerWhileSpeaking ==
    comp = "hook" => ~(hk.isSpeaking /\ hk.timerPending > 0)


(***************************************************************************)
(* C33: whenever the stored idle-stop timeout handle is set, a timer is    *)
(* pending: the handle is cleared when the timer fires, with or without a  *)
(* recorder, so that the timer can be armed again.                         *)
(***************************************************************************)
C33_HandleMeansPending ==
    comp = "hook" => (hk.timeoutStop => hk.timerPending > 0)


(***************************************************************************)
(* C34: the gate listens only while a capture session is active: with no   *)
(* recorder and no start in progress the gate is paused, after a stop by   *)
(* the idle timeout and after a start that was denied the microphone just  *)
(* as after stopRecording, so no speech event is handled then.             *)
(***************************************************************************)
StartInProgress ==
    hk.nGum > 0 \/ hk.nImp > 0

C34_GateOnlyWhileCapturing ==
    (comp = "hook" /\ hk.mounted)
        => (hk.vadOn => (hk.recorder # 0 \/ StartInProgress))


(***************************************************************************)
(* C35: when two stop requests overlap (the idle timeout's expiry and a    *)
(* stopRecording() call, the second beginning while the first is suspended *)
(* at an await) the session is stopped once: at most one full-session      *)
(* transcription call is made for the one recorder of the run.             *)
(***************************************************************************)
FullCalls ==
    {c \in DOMAIN hk.calls : c.kind = "full"}

C35_StoppedOnce ==
    comp = "hook"
        => /\ Cardinality(FullCalls) <= 1
           /\ \A c \in FullCalls : hk.calls[c] <= 1


(***************************************************************************)
(* C36: a chunk appended to the speech span is in the payload of some span *)
(* transcription call by the time a flush clears the span buffer: the      *)
(* clearing done by a speech-end flush discards no chunk that was never    *)
(* sent, such as one delivered during the next span while the flush was    *)
(* awaiting its transcription.                                             *)
(***************************************************************************)
C36_NoChunkDiscardedUnsent ==
    [][FlushDone
         => \A d \in Ids(hk.speechChunks) \ Ids(hk'.speechChunks) :
               \E c \in DOMAIN hk'.calls :
                  c.audio.src = "merge" /\ d \in Ids(c.audio.ids)]_vars


(***************************************************************************)
(* C37: in the local-engine recorder component, whenever no start is       *)
(* awaiting the microphone (stop is synchronous), the component's          *)
(* isStreaming flag equals the service's streaming flag.                   *)
(***************************************************************************)
C37_FlagsAgree ==
    (comp = "local" /\ ws.mounted /\ ws.nGum = 0)
        => (ws.isStreaming = ws.svcStreaming)


(***************************************************************************)
(* C38: in every reachable state of the engine service, the streaming flag *)
(* being true implies that an initialized instance exists and an audio     *)
(* context is open, also when stopStreaming or dispose ran while a         *)
(* startStreaming call was awaiting the microphone.                        *)
(***************************************************************************)
C38_StreamingImpliesReady ==
    comp = "engine"
        => (ws.svcStreaming
               => /\ ws.instance
                  /\ ws.audioContext # 0
                  /\ ws.ctxs[ws.audioContext] = "running")

(***************************************************************************)
(* C39: whenever the engine service is not streaming and no startStreaming *)
(* call is in progress, no audio context is open and no microphone stream  *)
(* is live.                                                                *)
(***************************************************************************)
C39_IdleHoldsNothing ==
    comp = "engine"
        => ((~ws.svcStreaming /\ ws.nGum = 0)
               => /\ \A c \in 1..Len(ws.ctxs) : ws.ctxs[c] = "closed"
                  /\ ws.live = {})

(***************************************************************************)
(* C40: at most one audio processing pipeline (a processor of an open      *)
(* audio context on a live stream) feeds the engine at any time, also when *)
(* startStreaming is called again before an earlier call has acquired the  *)
(* microphone and set the streaming flag.                                  *)
(***************************************************************************)
Pipelines ==
    {p \in ws.procs : ws.ctxs[p.ctx] = "running" /\ p.stream \in ws.live}

C40_OnePipeline ==
    comp = "engine" => Cardinality(Pipelines) <= 1

====
